---- MODULE Spec2Model ----
(***************************************************************************)
(* A model of the consultant-proj-matcher front end and container entry    *)
(* point:                                                                  *)
(*   - ChatInterface (the role elicitation dialogue) inside ChatPage,      *)
(*   - ProjectDescriptionPage (the single-text query form),                *)
(*   - the backend container entrypoint script.                            *)
(*                                                                         *)
(* Strings of the chat are sequences of characters (one-character strings; *)
(* a long literal of the source is kept as one element).  The project      *)
(* description, whose length bound is 5000, is a run-length encoded string.*)
(***************************************************************************)
EXTENDS Integers, Sequences, FiniteSets, TLC

VARIABLES
    \* ChatInterface state (useState), one per chat page
    messages, input, loading,
    \* sendChatMessage promises that have not settled, setTimeout callbacks not yet run
    pending, timers,
    \* ChatPage state: mode, whether the page is still rendered, which ChatInterface
    \* instance the page currently renders
    mode, onPage, epoch,
    \* observations: the sendChatMessage calls, the navigate calls
    requestLog, navLog,
    \* ProjectDescriptionPage: the textarea state and the navigations it made
    description, posted,
    \* entrypoint script: environment, program counter, probe number, commands run, exit status (empty until the script exits)
    seedEnv, pc, attempt, ran, exitCode,
    \* a single-role match request: the scored candidates in candidate order, K, the scores
    \* collected so far, the error the adapter raised, the request's outcome and result
    cands, topK, collected, raised, outcome, result,
    \* a team request: the ranked list of each role, the assignments made so far
    lists, assignment

chatVars == <<messages, input, loading, pending, timers, mode, onPage, epoch,
              requestLog, navLog>>
postVars == <<description, posted>>
entryVars == <<seedEnv, pc, attempt, ran, exitCode>>
matchVars == <<cands, topK, collected, raised, outcome, result>>
teamVars == <<lists, assignment>>
vars == <<chatVars, postVars, entryVars, matchVars, teamVars>>

----------------------------------------------------------------------------
(* Bounds of the model *)

\* user turns (sendChatMessage calls), over all chat pages
MaxTurns == 2
\* times ChatInterface is mounted again by switching back to "assemble", over all chat pages
MaxRemounts == 1
\* runs of equal characters in a text entered into the project description
MaxRuns == 3
\* scored candidates of a match request
MaxCands == 3
\* the K of a match request
MaxK == 2
\* roles of a team request
MaxRoles == 3

----------------------------------------------------------------------------
(* Strings *)

\* A character is a one-character string; a character that cannot be written in a
\* string here is written as the name of its code point.

\* the characters String.prototype.trim removes: WhiteSpace and LineTerminator
IsWhitespace(ch) ==
    ch \in {"\t", "\n", "U+000B", "\f", "\r", " ", "U+00A0", "U+1680",
            "U+2000", "U+2001", "U+2002", "U+2003", "U+2004", "U+2005", "U+2006",
            "U+2007", "U+2008", "U+2009", "U+200A", "U+2028", "U+2029", "U+202F",
            "U+205F", "U+3000", "U+FEFF"}

RECURSIVE TrimStart(_)
TrimStart(s) ==
    IF s = <<>> THEN <<>>
    ELSE IF IsWhitespace(Head(s)) THEN TrimStart(Tail(s)) ELSE s

RECURSIVE TrimEnd(_)
TrimEnd(s) ==
    IF s = <<>> THEN <<>>
    ELSE IF IsWhitespace(s[Len(s)]) THEN TrimEnd(SubSeq(s, 1, Len(s) - 1)) ELSE s

\* String.prototype.trim
Trim(s) == TrimEnd(TrimStart(s))

\* what the user can type into the chat input
InputTexts ==
    {<<>>, <<" ", "U+3000">>, <<"a">>, <<"\r", "a", "\n">>, <<"a", " ", "b">>}

----------------------------------------------------------------------------
(* ChatInterface *)

Greeting ==
    [role |-> "assistant",
     content |-> <<"Hi! I'm here to help you assemble your development team. Tell me about your project - what are you looking to build?">>]

\* the initial useState values of a freshly mounted ChatInterface
InitialMessages == <<Greeting>>

\* RoleSpecs an extraction can carry: well formed, without title, without skills
GoodRole == [title |-> <<"d", "e", "v">>, skills |-> <<"React">>]
NoTitleRole == [title |-> <<>>, skills |-> <<"React">>]
NoSkillsRole == [title |-> <<"d", "e", "v">>, skills |-> <<>>]

\* response.roles: absent (undefined) or an array
NoRoles == [defined |-> FALSE, items |-> <<>>]
RolesOf(items) == [defined |-> TRUE, items |-> items]
RolesValues ==
    {NoRoles, RolesOf(<<>>), RolesOf(<<GoodRole>>), RolesOf(<<NoTitleRole, NoSkillsRole>>)}

\* what sendChatMessage can resolve to
Responses ==
    [content : {<<"o", "k">>}, isComplete : BOOLEAN, roles : RolesValues]

\* what sendChatMessage can reject with: an Error object or any other value
Errors ==
    {[instanceOfError |-> TRUE, message |-> <<"d", "o", "w", "n">>, str |-> <<"Error: down">>],
     [instanceOfError |-> FALSE, message |-> <<>>, str |-> <<"5", "0", "3">>]}

\* JavaScript truthiness of response.roles: undefined is falsy, every array is truthy
Truthy(roles) == roles.defined

\* variant: the turn appended as typed
UserMessageRaw(text) == [role |-> "user", content |-> text]

UserMessage(text) == [role |-> "user", content |-> Trim(text)]

AssistantMessage(response) == [role |-> "assistant", content |-> response.content]

ErrorMessage(error) ==
    [role |-> "assistant",
     content |-> <<"Error: ">> \o (IF error.instanceOfError THEN error.message ELSE error.str)]

\* the guard of handleSend
CanSend(c) == Trim(input[c]) # <<>> /\ ~loading[c]

\* ChatInterface is rendered by the page: the page is shown and in "assemble" mode
Mounted(c) == onPage[c] /\ mode[c] = "assemble"

\* the component instance that issued request or timer x is still the mounted one
Alive(c, x) == Mounted(c) /\ x.epoch = epoch[c]

\* variant: the state lives in one module-level value shared by every instance
SetStateShared(f, c, v) == [d \in DOMAIN f |-> v]

\* a useState setter: sets the state of component instance c only
SetState(f, c, v) == [f EXCEPT ![c] = v]

Pages == DOMAIN messages

RECURSIVE Total(_, _)
Total(f, S) == IF S = {} THEN 0 ELSE LET c == CHOOSE x \in S : TRUE IN f[c] + Total(f, S \ {c})

\* the model stops accepting turns and re-mounts at its bounds
TurnsLeft == Total([c \in Pages |-> Len(requestLog[c])], Pages) < MaxTurns
RemountsLeft == Total(epoch, Pages) < MaxRemounts

\* variant: handleSend without setLoading(true)
HandleSendNoLoading(c) ==
    /\ Mounted(c)
    /\ CanSend(c)
    /\ TurnsLeft
    /\ LET userMessage == UserMessage(input[c])
           newMessages == Append(messages[c], userMessage)
           request == [id |-> Len(requestLog[c]) + 1, arg |-> newMessages, epoch |-> epoch[c]]
       IN /\ messages' = SetState(messages, c, newMessages)
          /\ input' = SetState(input, c, <<>>)
          /\ UNCHANGED loading
          /\ pending' = [pending EXCEPT ![c] = @ \cup {request}]
          /\ requestLog' = [requestLog EXCEPT ![c] = Append(@, newMessages)]
    /\ UNCHANGED <<timers, mode, onPage, epoch, navLog>>
    /\ UNCHANGED <<postVars, entryVars, matchVars, teamVars>>

\* variant: handleSend calling sendChatMessage(messages), the history before the turn
HandleSendStaleArg(c) ==
    /\ Mounted(c)
    /\ CanSend(c)
    /\ TurnsLeft
    /\ LET userMessage == UserMessage(input[c])
           newMessages == Append(messages[c], userMessage)
           request == [id |-> Len(requestLog[c]) + 1, arg |-> messages[c], epoch |-> epoch[c]]
       IN /\ messages' = SetState(messages, c, newMessages)
          /\ input' = SetState(input, c, <<>>)
          /\ loading' = SetState(loading, c, TRUE)
          /\ pending' = [pending EXCEPT ![c] = @ \cup {request}]
          /\ requestLog' = [requestLog EXCEPT ![c] = Append(@, messages[c])]
    /\ UNCHANGED <<timers, mode, onPage, epoch, navLog>>
    /\ UNCHANGED <<postVars, entryVars, matchVars, teamVars>>

\* handleSend up to the await: accept the turn, append it, clear the input, call sendChatMessage
HandleSend(c) ==
    /\ Mounted(c)
    /\ CanSend(c)
    /\ TurnsLeft
    /\ LET userMessage == UserMessage(input[c])
           newMessages == Append(messages[c], userMessage)
           request == [id |-> Len(requestLog[c]) + 1, arg |-> newMessages, epoch |-> epoch[c]]
       IN /\ messages' = SetState(messages, c, newMessages)
          /\ input' = SetState(input, c, <<>>)
          /\ loading' = SetState(loading, c, TRUE)
          /\ pending' = [pending EXCEPT ![c] = @ \cup {request}]
          /\ requestLog' = [requestLog EXCEPT ![c] = Append(@, newMessages)]
    /\ UNCHANGED <<timers, mode, onPage, epoch, navLog>>
    /\ UNCHANGED <<postVars, entryVars, matchVars, teamVars>>

\* handleSend after the await resolved: append the reply, schedule onComplete, reset loading.
\* A state setter of a component that is no longer mounted does nothing.
Resolve(c, r, response) ==
    /\ r \in pending[c]
    /\ pending' = [pending EXCEPT ![c] = @ \ {r}]
    /\ IF Alive(c, r)
       THEN /\ messages' = SetState(messages, c, Append(r.arg, AssistantMessage(response)))
            /\ loading' = SetState(loading, c, FALSE)
       ELSE UNCHANGED <<messages, loading>>
    /\ timers' = IF response.isComplete /\ Truthy(response.roles)
                 THEN [timers EXCEPT ![c] = @ \cup
                          {[id |-> r.id, roles |-> response.roles.items, epoch |-> r.epoch]}]
                 ELSE timers
    /\ UNCHANGED <<input, mode, onPage, epoch, requestLog, navLog>>
    /\ UNCHANGED <<postVars, entryVars, matchVars, teamVars>>

\* variant: the catch block appending to the history of before the turn
RejectStale(c, r, error) ==
    /\ r \in pending[c]
    /\ pending' = [pending EXCEPT ![c] = @ \ {r}]
    /\ IF Alive(c, r)
       THEN /\ messages' = SetState(messages, c, Append(SubSeq(r.arg, 1, Len(r.arg) - 1), ErrorMessage(error)))
            /\ loading' = SetState(loading, c, FALSE)
       ELSE UNCHANGED <<messages, loading>>
    /\ UNCHANGED <<input, timers, mode, onPage, epoch, requestLog, navLog>>
    /\ UNCHANGED <<postVars, entryVars, matchVars, teamVars>>

\* variant: the catch block sending the same history again
RejectRetry(c, r, error) ==
    /\ r \in pending[c]
    /\ pending' = [pending EXCEPT ![c] = (@ \ {r}) \cup {[r EXCEPT !.id = Len(requestLog[c]) + 1]}]
    /\ requestLog' = [requestLog EXCEPT ![c] = Append(@, r.arg)]
    /\ IF Alive(c, r)
       THEN /\ messages' = SetState(messages, c, Append(r.arg, ErrorMessage(error)))
            /\ loading' = SetState(loading, c, FALSE)
       ELSE UNCHANGED <<messages, loading>>
    /\ UNCHANGED <<input, timers, mode, onPage, epoch, navLog>>
    /\ UNCHANGED <<postVars, entryVars, matchVars, teamVars>>

\* variant: a catch block with no finally, loading is left as it is
RejectNoFinally(c, r, error) ==
    /\ r \in pending[c]
    /\ pending' = [pending EXCEPT ![c] = @ \ {r}]
    /\ IF Alive(c, r)
       THEN /\ messages' = SetState(messages, c, Append(r.arg, ErrorMessage(error)))
            /\ UNCHANGED loading
       ELSE UNCHANGED <<messages, loading>>
    /\ UNCHANGED <<input, timers, mode, onPage, epoch, requestLog, navLog>>
    /\ UNCHANGED <<postVars, entryVars, matchVars, teamVars>>

\* handleSend after the await rejected: append the error message, reset loading
Reject(c, r, error) ==
    /\ r \in pending[c]
    /\ pending' = [pending EXCEPT ![c] = @ \ {r}]
    /\ IF Alive(c, r)
       THEN /\ messages' = SetState(messages, c, Append(r.arg, ErrorMessage(error)))
            /\ loading' = SetState(loading, c, FALSE)
       ELSE UNCHANGED <<messages, loading>>
    /\ UNCHANGED <<input, timers, mode, onPage, epoch, requestLog, navLog>>
    /\ UNCHANGED <<postVars, entryVars, matchVars, teamVars>>

\* the Input's onChange; the Input is disabled while loading
SetInput(c, text) ==
    /\ Mounted(c)
    /\ ~loading[c]
    /\ text # input[c]
    /\ input' = SetState(input, c, text)
    /\ UNCHANGED <<messages, loading, pending, timers, mode, onPage, epoch, requestLog, navLog>>
    /\ UNCHANGED <<postVars, entryVars, matchVars, teamVars>>

----------------------------------------------------------------------------
(* ChatPage *)

\* the setTimeout callback: onComplete(response.roles), which is ChatPage.handleComplete:
\* navigate to /results with the roles; the page is replaced by the results page.
\* The log keeps, with each call, the conversation (ChatInterface instance) it came from.
TimerFire(c, t) ==
    /\ t \in timers[c]
    /\ timers' = [timers EXCEPT ![c] = @ \ {t}]
    /\ navLog' = [navLog EXCEPT ![c] = Append(@, [to |-> "/results", roles |-> t.roles, from |-> t.epoch])]
    /\ onPage' = [onPage EXCEPT ![c] = FALSE]
    /\ UNCHANGED <<messages, input, loading, pending, mode, epoch, requestLog>>
    /\ UNCHANGED <<postVars, entryVars, matchVars, teamVars>>

\* what FindMatchForm can pass to onMatch: any string
FindDescriptions == {<<>>, <<"a", " ", "b">>}

\* FindMatchForm, rendered in "find" mode, calls onMatch(description): navigate to
\* /results with the description; the page is replaced by the results page
handleFindMatch(c, d) ==
    /\ onPage[c]
    /\ mode[c] = "find"
    /\ navLog' = [navLog EXCEPT ![c] = Append(@, [to |-> "/results", projectDescription |-> d])]
    /\ onPage' = [onPage EXCEPT ![c] = FALSE]
    /\ UNCHANGED <<messages, input, loading, pending, timers, mode, epoch, requestLog>>
    /\ UNCHANGED <<postVars, entryVars, matchVars, teamVars>>

\* the mode buttons: "find" unmounts ChatInterface, "assemble" mounts a new one
SetMode(c, m) ==
    /\ onPage[c]
    /\ m # mode[c]
    /\ mode' = [mode EXCEPT ![c] = m]
    /\ IF m = "assemble"
       THEN /\ RemountsLeft
            /\ epoch' = [epoch EXCEPT ![c] = @ + 1]
            /\ messages' = SetState(messages, c, InitialMessages)
            /\ input' = SetState(input, c, <<>>)
            /\ loading' = SetState(loading, c, FALSE)
       ELSE UNCHANGED <<epoch, messages, input, loading>>
    /\ UNCHANGED <<pending, timers, onPage, requestLog, navLog>>
    /\ UNCHANGED <<postVars, entryVars, matchVars, teamVars>>

----------------------------------------------------------------------------
(* The chat: one page *)

InitChat(pages) ==
    /\ messages = [c \in pages |-> InitialMessages]
    /\ input = [c \in pages |-> <<>>]
    /\ loading = [c \in pages |-> FALSE]
    /\ pending = [c \in pages |-> {}]
    /\ timers = [c \in pages |-> {}]
    /\ mode = [c \in pages |-> "assemble"]
    /\ onPage = [c \in pages |-> TRUE]
    /\ epoch = [c \in pages |-> 0]
    /\ requestLog = [c \in pages |-> <<>>]
    /\ navLog = [c \in pages |-> <<>>]

\* the parts a specification leaves idle

PostIdle == description = <<>> /\ posted = <<>>
EntryIdle ==
    seedEnv = [set |-> FALSE, value |-> ""] /\ pc = "idle" /\ attempt = 0 /\ ran = <<>>
    /\ exitCode = <<>>
ChatIdle == InitChat({})
MatchIdle ==
    cands = <<>> /\ topK = 0 /\ collected = <<>> /\ raised = "none" /\ outcome = "idle"
    /\ result = <<>>
TeamIdle == lists = <<>> /\ assignment = <<>>

Init == InitChat({1}) /\ PostIdle /\ EntryIdle /\ MatchIdle /\ TeamIdle

Next ==
    \/ \E c \in Pages, text \in InputTexts : SetInput(c, text)
    \/ \E c \in Pages : HandleSend(c)
    \/ \E c \in Pages : \E r \in pending[c], response \in Responses : Resolve(c, r, response)
    \/ \E c \in Pages : \E r \in pending[c], error \in Errors : Reject(c, r, error)
    \/ \E c \in Pages : \E t \in timers[c] : TimerFire(c, t)
    \/ \E c \in Pages, m \in {"assemble", "find"} : SetMode(c, m)
    \/ \E c \in Pages, d \in FindDescriptions : handleFindMatch(c, d)

Spec == Init /\ [][Next]_vars

----------------------------------------------------------------------------
(* The chat: two pages side by side, each with its own ChatInterface *)

InitTwo == InitChat({1, 2}) /\ PostIdle /\ EntryIdle /\ MatchIdle /\ TeamIdle

SpecTwo == InitTwo /\ [][Next]_vars

----------------------------------------------------------------------------
(* ProjectDescriptionPage.  A description is a sequence of runs [ch, n]:   *)
(* n >= 1 copies of the character ch, adjacent runs of different           *)
(* characters.                                                             *)

maxCharacters == 5000

RECURSIVE StrLength(_)
StrLength(s) == IF s = <<>> THEN 0 ELSE Head(s).n + StrLength(Tail(s))

RECURSIVE TrimStartRuns(_)
TrimStartRuns(s) ==
    IF s = <<>> THEN <<>>
    ELSE IF IsWhitespace(Head(s).ch) THEN TrimStartRuns(Tail(s)) ELSE s

RECURSIVE TrimEndRuns(_)
TrimEndRuns(s) ==
    IF s = <<>> THEN <<>>
    ELSE IF IsWhitespace(s[Len(s)].ch) THEN TrimEndRuns(SubSeq(s, 1, Len(s) - 1)) ELSE s

\* String.prototype.trim on runs
TrimRuns(s) == TrimEndRuns(TrimStartRuns(s))

\* the first k characters of s
RECURSIVE Take(_, _)
Take(s, k) ==
    IF s = <<>> \/ k <= 0 THEN <<>>
    ELSE IF Head(s).n >= k THEN <<[ch |-> Head(s).ch, n |-> k]>>
    ELSE <<Head(s)>> \o Take(Tail(s), k - Head(s).n)

\* texts a user can try to enter: runs of spaces, ideographic spaces and letters,
\* around the length bound
RunLengths ==
    {1, maxCharacters \div 2, maxCharacters - 1, maxCharacters, maxCharacters + 1}
Runs == [ch : {" ", "U+3000", "a"}, n : RunLengths]
EnteredTexts ==
    {s \in UNION {[1..k -> Runs] : k \in 0..MaxRuns} :
        \A i \in 1..(Len(s) - 1) : s[i].ch # s[i + 1].ch}

\* variant: a textarea without maxLength
TextareaValueNoMax(text) == text

\* the value of the textarea after the user entered text: maxLength={maxCharacters}
\* lets no more than maxCharacters characters in
TextareaValue(text) == Take(text, maxCharacters)

\* the Post button's disabled attribute
PostDisabled == TrimRuns(description) = <<>> \/ StrLength(description) > maxCharacters

\* the page is shown until it navigates to /results
PostPageShown == posted = <<>>

\* onChange of the textarea
SetDescription(text) ==
    /\ PostPageShown
    /\ TextareaValue(text) # description
    /\ description' = TextareaValue(text)
    /\ UNCHANGED posted
    /\ UNCHANGED <<chatVars, entryVars, matchVars, teamVars>>

handlePost ==
    /\ TrimRuns(description) # <<>>
    /\ posted' = Append(posted, [to |-> "/results", projectDescription |-> description])
    /\ UNCHANGED description

\* a click on the Post button
ClickPost ==
    /\ PostPageShown
    /\ ~PostDisabled
    /\ handlePost
    /\ UNCHANGED <<chatVars, entryVars, matchVars, teamVars>>

\* Ctrl+Enter or Cmd+Enter in the textarea
KeyDownEnter ==
    /\ PostPageShown
    /\ handlePost
    /\ UNCHANGED <<chatVars, entryVars, matchVars, teamVars>>

InitPost ==
    description = <<>> /\ posted = <<>> /\ ChatIdle /\ EntryIdle /\ MatchIdle /\ TeamIdle

NextPost ==
    \/ \E text \in EnteredTexts : SetDescription(text)
    \/ ClickPost
    \/ KeyDownEnter

SpecPost == InitPost /\ [][NextPost]_vars

----------------------------------------------------------------------------
(* The backend container entrypoint *)

max_retries == 30

\* values of SEED_MOCK_DATA in the container's environment
EnvValues ==
    {[set |-> FALSE, value |-> ""]} \cup
    [set : {TRUE}, value : {"", "true", "false", "TRUE", "True", "1", "yes", "true "}]

\* ${SEED_MOCK_DATA:-false}: the value, or "false" when unset or empty
SeedMockData(env) == IF env.set /\ env.value # "" THEN env.value ELSE "false"

\* variant: a test that lets every value but "false" through
SeedEnabledUnlessFalse(env) == SeedMockData(env) # "false"

\* [ "${SEED_MOCK_DATA:-false}" = "true" ]
SeedEnabled(env) == SeedMockData(env) = "true"

\* a command the script ran and whether it succeeded
Run(cmd, ok) == [cmd |-> cmd, ok |-> ok]

\* one iteration of the wait loop whose curl probe succeeds: break
ProbeReady ==
    /\ pc = "wait"
    /\ ran' = Append(ran, Run("curl", TRUE))
    /\ pc' = "init"
    /\ UNCHANGED <<seedEnv, attempt, exitCode>>
    /\ UNCHANGED <<chatVars, postVars, matchVars, teamVars>>

\* variant: an iteration that sleeps after every failed probe, the last one too
ProbeNotReadySleepAlways ==
    /\ pc = "wait"
    /\ IF attempt = max_retries
       THEN /\ ran' = ran \o <<Run("curl", FALSE), Run("sleep", TRUE)>>
            /\ pc' = "init"
            /\ UNCHANGED attempt
       ELSE /\ ran' = ran \o <<Run("curl", FALSE), Run("sleep", TRUE)>>
            /\ attempt' = attempt + 1
            /\ UNCHANGED pc
    /\ UNCHANGED <<seedEnv, exitCode>>
    /\ UNCHANGED <<chatVars, postVars, matchVars, teamVars>>

\* one iteration whose probe fails: sleep and go on, or give up after the last attempt
ProbeNotReady ==
    /\ pc = "wait"
    /\ IF attempt = max_retries
       THEN /\ ran' = Append(ran, Run("curl", FALSE))
            /\ pc' = "init"
            /\ UNCHANGED attempt
       ELSE /\ ran' = ran \o <<Run("curl", FALSE), Run("sleep", TRUE)>>
            /\ attempt' = attempt + 1
            /\ UNCHANGED pc
    /\ UNCHANGED <<seedEnv, exitCode>>
    /\ UNCHANGED <<chatVars, postVars, matchVars, teamVars>>

\* python scripts/init_weaviate.py; exit 1 when it fails
InitSchema(ok) ==
    /\ pc = "init"
    /\ ran' = Append(ran, Run("init_weaviate.py", ok))
    /\ IF ok
       THEN pc' = "seed" /\ UNCHANGED exitCode
       ELSE pc' = "exited" /\ exitCode' = <<1>>
    /\ UNCHANGED <<seedEnv, attempt>>
    /\ UNCHANGED <<chatVars, postVars, matchVars, teamVars>>

\* variant: the seeding script run as a plain command under set -e
SeedBlockExitOnFailure(ok) ==
    /\ pc = "seed"
    /\ ran' = IF SeedEnabled(seedEnv) THEN Append(ran, Run("insert_mock_data.py", ok)) ELSE ran
    /\ IF SeedEnabled(seedEnv) /\ ~ok
       THEN pc' = "exited" /\ exitCode' = <<1>>
       ELSE pc' = "start" /\ UNCHANGED exitCode
    /\ UNCHANGED <<seedEnv, attempt>>
    /\ UNCHANGED <<chatVars, postVars, matchVars, teamVars>>

\* the SEED_MOCK_DATA block: run insert_mock_data.py, go on whether or not it succeeds
SeedBlock(ok) ==
    /\ pc = "seed"
    /\ ran' = IF SeedEnabled(seedEnv) THEN Append(ran, Run("insert_mock_data.py", ok)) ELSE ran
    /\ pc' = "start"
    /\ UNCHANGED <<seedEnv, attempt, exitCode>>
    /\ UNCHANGED <<chatVars, postVars, matchVars, teamVars>>

\* exec uvicorn
StartApp ==
    /\ pc = "start"
    /\ ran' = Append(ran, Run("uvicorn", TRUE))
    /\ pc' = "running"
    /\ UNCHANGED <<seedEnv, attempt, exitCode>>
    /\ UNCHANGED <<chatVars, postVars, matchVars, teamVars>>

InitEntry ==
    /\ seedEnv \in EnvValues
    /\ pc = "wait"
    /\ attempt = 1
    /\ ran = <<>>
    /\ exitCode = <<>>
    /\ ChatIdle
    /\ PostIdle
    /\ MatchIdle
    /\ TeamIdle

NextEntry ==
    \/ ProbeReady
    \/ ProbeNotReady
    \/ \E ok \in BOOLEAN : InitSchema(ok)
    \/ \E ok \in BOOLEAN : SeedBlock(ok)
    \/ StartApp

SpecEntry == InitEntry /\ [][NextEntry]_vars

\* the script runs its commands one after the other: it does not stop while a step is left
SpecEntryFair == SpecEntry /\ WF_vars(NextEntry)

----------------------------------------------------------------------------
(* A single-role match request: scoring fan-out, fan-in, Ranker.            *)
(* The matching engine is the backend's; it is modelled from the design.   *)

ConsultantIds == {"X", "Y"}

\* composite scores, in hundredths
Scores == {0, 50, 100}

ScoredCandidates == [id : ConsultantIds, score : Scores]

\* a slot of the fan-in that holds no score yet
Unscored == [id |-> "", score |-> 0]

\* candidate i of cs goes before candidate j: higher score, then insertion order
Before(cs, i, j) == cs[i].score > cs[j].score \/ (cs[i].score = cs[j].score /\ i < j)

\* one entry per consultant id: the highest score, the first of equals
Survivors(cs) ==
    {i \in DOMAIN cs : \A j \in DOMAIN cs : (j # i /\ cs[j].id = cs[i].id) => Before(cs, i, j)}

\* the positions S of cs in descending score, ties in insertion order
RECURSIVE SortPositions(_, _)
SortPositions(cs, S) ==
    IF S = {} THEN <<>>
    ELSE LET first == CHOOSE i \in S : \A j \in S \ {i} : Before(cs, i, j)
         IN <<first>> \o SortPositions(cs, S \ {first})

Min(a, b) == IF a <= b THEN a ELSE b

\* variant: a Ranker that does not deduplicate
RankerNoDedupe(cs, k) ==
    LET order == SortPositions(cs, DOMAIN cs)
    IN [p \in 1..Min(k, Len(order)) |-> cs[order[p]]]

\* the Ranker: deduplicate by id, order, truncate to the top K
Ranker(cs, k) ==
    LET order == SortPositions(cs, Survivors(cs))
    IN [p \in 1..Min(k, Len(order)) |-> cs[order[p]]]

\* variant: a fan-in that appends each score as its task finishes
PlaceInCompletionOrder(col, i, sc) ==
    LET free == CHOOSE p \in DOMAIN col : col[p] = Unscored /\ \A q \in 1..(p - 1) : col[q] # Unscored
    IN [col EXCEPT ![free] = sc]

\* the fan-in: the score of candidate i is kept at position i
Place(col, i, sc) == [col EXCEPT ![i] = sc]

\* the scores collected so far, in the order of the slots
Collected(col) == SelectSeq(col, LAMBDA e : e # Unscored)

\* the scoring task of candidate i finishes; tasks finish in any order
ScoreOne(i) ==
    /\ outcome = "pending"
    /\ i \in DOMAIN cands
    /\ collected[i] = Unscored
    /\ collected' = Place(collected, i, cands[i])
    /\ UNCHANGED <<cands, topK, raised, outcome, result>>
    /\ UNCHANGED <<chatVars, postVars, entryVars, teamVars>>

\* variant: a timeout treated as a partial failure, ranking what was scored
AdapterTimeoutPartial ==
    /\ outcome = "pending"
    /\ raised' = "UpstreamTimeout"
    /\ outcome' = "ok"
    /\ result' = Ranker(Collected(collected), topK)
    /\ UNCHANGED <<cands, topK, collected>>
    /\ UNCHANGED <<chatVars, postVars, entryVars, teamVars>>

\* the adapter call times out: the request fails with UpstreamTimeout, no result
AdapterTimeout ==
    /\ outcome = "pending"
    /\ raised' = "UpstreamTimeout"
    /\ outcome' = "UpstreamTimeout"
    /\ result' = <<>>
    /\ UNCHANGED <<cands, topK, collected>>
    /\ UNCHANGED <<chatVars, postVars, entryVars, teamVars>>

\* every task has finished: rank
Finish ==
    /\ outcome = "pending"
    /\ \A i \in DOMAIN collected : collected[i] # Unscored
    /\ outcome' = "ok"
    /\ result' = Ranker(Collected(collected), topK)
    /\ UNCHANGED <<cands, topK, collected, raised>>
    /\ UNCHANGED <<chatVars, postVars, entryVars, teamVars>>

InitMatch ==
    /\ cands \in UNION {[1..n -> ScoredCandidates] : n \in 0..MaxCands}
    /\ topK \in 0..MaxK
    /\ collected = [i \in DOMAIN cands |-> Unscored]
    /\ raised = "none"
    /\ outcome = "pending"
    /\ result = <<>>
    /\ ChatIdle /\ PostIdle /\ EntryIdle /\ TeamIdle

NextMatch ==
    \/ \E i \in DOMAIN cands : ScoreOne(i)
    \/ AdapterTimeout
    \/ Finish

SpecMatch == InitMatch /\ [][NextMatch]_vars

----------------------------------------------------------------------------
(* A team request: the Team Assembler's reconciliation of the roles' ranked *)
(* lists, in role order.  Modelled from the design.                         *)

Consultants == {"X", "Y", "Z"}

\* ranked lists (Ranker outputs): no consultant twice
RankedLists ==
    {l \in UNION {[1..n -> Consultants] : n \in 0..Cardinality(Consultants)} :
        \A i, j \in DOMAIN l : l[i] = l[j] => i = j}

\* the consultants assigned so far
Taken(asg) == {asg[k].consultant : k \in {k \in DOMAIN asg : asg[k].status # "no match"}}

\* the candidates of a ranked list
Candidates(list) == {list[i] : i \in DOMAIN list}

\* the best candidate of a ranked list that no role has been given
NextBest(list, taken) ==
    list[CHOOSE i \in DOMAIN list : list[i] \notin taken /\ \A j \in 1..(i - 1) : list[j] \in taken]

Assigned(x) == [consultant |-> x, status |-> "assigned"]

\* the earlier roles that hold a candidate of the list and have a candidate of
\* their own that no role has been given
CanYield(ls, asg, list) ==
    {a \in DOMAIN asg :
        /\ asg[a].status # "no match"
        /\ asg[a].consultant \in Candidates(list)
        /\ Candidates(ls[a]) \ Taken(asg) # {}}

\* variant: an earlier role never gives way, the later role repeats
ReconcileNoYield(ls, asg) ==
    LET list == ls[Len(asg) + 1]
        taken == Taken(asg)
    IN IF list = <<>> THEN {Append(asg, [consultant |-> "", status |-> "no match"])}
       ELSE IF Candidates(list) \ taken # {}
       THEN {Append(asg, Assigned(NextBest(list, taken)))}
       ELSE {Append(asg, [consultant |-> x, status |-> "repeat"]) : x \in Candidates(list)}

\* the assignments the reconciliation can reach for the next role of ls, after asg:
\*   - a role without candidates gets an explicit "no match";
\*   - a role with a candidate that no role has been given gets the best such
\*     candidate (it falls through to its next-best);
\*   - otherwise, when an earlier role holds one of its candidates and has an
\*     alternate, that role receives its next-best alternate and gives the
\*     candidate up (which such role gives way is not fixed);
\*   - otherwise no alternative exists: the role repeats one of its candidates
\*     (which is not fixed), flagged.
Reconcile(ls, asg) ==
    LET list == ls[Len(asg) + 1]
        taken == Taken(asg)
    IN IF list = <<>> THEN {Append(asg, [consultant |-> "", status |-> "no match"])}
       ELSE IF Candidates(list) \ taken # {}
       THEN {Append(asg, Assigned(NextBest(list, taken)))}
       ELSE IF CanYield(ls, asg, list) # {}
       THEN {Append([asg EXCEPT ![a] = Assigned(NextBest(ls[a], taken))],
                    Assigned(asg[a].consultant)) : a \in CanYield(ls, asg, list)}
       ELSE {Append(asg, [consultant |-> x, status |-> "repeat"]) : x \in Candidates(list)}

\* the reconciliation pass reaches the next role
AssignNext ==
    /\ Len(assignment) < Len(lists)
    /\ assignment' \in Reconcile(lists, assignment)
    /\ UNCHANGED lists
    /\ UNCHANGED <<chatVars, postVars, entryVars, matchVars>>

InitTeam ==
    /\ lists \in UNION {[1..n -> RankedLists] : n \in 1..MaxRoles}
    /\ assignment = <<>>
    /\ ChatIdle /\ PostIdle /\ EntryIdle /\ MatchIdle

NextTeam == AssignNext

SpecTeam == InitTeam /\ [][NextTeam]_vars

----------------------------------------------------------------------------
(* Properties *)

IsPrefix(s, t) == Len(s) <= Len(t) /\ SubSeq(t, 1, Len(s)) = s

Last(s) == s[Len(s)]

\* the RoleSpec completeness invariant: a title and at least one required skill
WellFormedRole(role) == role.title # <<>> /\ role.skills # <<>>

\* an extraction that may complete the dialogue: at least one RoleSpec, all well formed
WellFormedExtraction(items) ==
    items # <<>> /\ \A k \in 1..Len(items) : WellFormedRole(items[k])

IsErrorMessage(m) == \E error \in Errors : m = ErrorMessage(error)

\* the navigations of page c that onComplete made: those with roles
OnCompleteCalls(c) == {i \in 1..Len(navLog[c]) : "roles" \in DOMAIN navLog[c][i]}

\* the conversation now shown on page c has had a completed, well-formed extraction
\* accepted: its onComplete is scheduled
Completed(c) == \E t \in timers[c] : t.epoch = epoch[c] /\ WellFormedExtraction(t.roles)

\* C1: every invocation of onComplete carries at least one RoleSpec, and every
\* RoleSpec it carries has a title and at least one required skill (an empty or
\* incomplete extraction flagged isComplete is rejected).
C1_OnCompleteCarriesWellFormedRoles ==
    \A c \in Pages : \A i \in OnCompleteCalls(c) : WellFormedExtraction(navLog[c][i].roles)

\* C2: when sendChatMessage rejects, the turn does not complete the dialogue: no
\* onComplete is scheduled or invoked, and in the mounted conversation the history
\* becomes the sent history, ending in the user's turn, followed by the error
\* message, with loading reset.
C2_FailureReportedWithoutTransition ==
    [][\A c \in Pages : \A r \in pending[c] : \A error \in Errors :
          Reject(c, r, error) =>
             /\ timers' = timers
             /\ navLog' = navLog
             /\ Alive(c, r) =>
                   /\ Len(messages'[c]) = Len(r.arg) + 1
                   /\ IsPrefix(r.arg, messages'[c])
                   /\ messages'[c][Len(r.arg)].role = "user"
                   /\ IsErrorMessage(Last(messages'[c]))
                   /\ ~loading'[c]]_vars

C2_Witness ==
    \E c \in Pages :
       /\ Len(messages[c]) = 3
       /\ messages[c][2].role = "user"
       /\ IsErrorMessage(messages[c][3])
       /\ ~loading[c]
       /\ timers[c] = {}
       /\ navLog[c] = <<>>

\* C3: within one conversation the history only grows: every step leaves the
\* message list of before as a prefix of the message list of after.
C3_HistoryGrowsMonotonically ==
    [][\A c \in Pages : epoch'[c] = epoch[c] => IsPrefix(messages[c], messages'[c])]_vars

C3_Witness ==
    \E c \in Pages :
       /\ Len(messages[c]) = 5
       /\ IsErrorMessage(messages[c][3])
       /\ ~IsErrorMessage(messages[c][5])

\* C4: every sendChatMessage call is made with the complete history of that
\* moment, which is the history of before followed by the user's turn.
C4_RequestCarriesFullHistory ==
    [][\A c \in Pages :
          requestLog'[c] # requestLog[c] =>
             /\ Len(requestLog'[c]) = Len(requestLog[c]) + 1
             /\ SubSeq(requestLog'[c], 1, Len(requestLog[c])) = requestLog[c]
             /\ Last(requestLog'[c]) = messages'[c]
             /\ messages'[c] = Append(messages[c], UserMessage(input[c]))
             /\ Last(messages'[c]).content # <<>>]_vars

C4_Witness ==
    \E c \in Pages :
       /\ Len(requestLog[c]) = 2
       /\ Len(requestLog[c][2]) = 4
       /\ requestLog[c][2][4].content = <<"a", " ", "b">>

\* C5: COMPLETE is terminal: once a completed extraction has been accepted in a
\* conversation, no further user turn is accepted and no further request is issued.
C5_CompleteIsTerminal ==
    [][\A c \in Pages :
          (Completed(c) /\ epoch'[c] = epoch[c]) =>
             (requestLog'[c] = requestLog[c] /\ pending'[c] \subseteq pending[c])]_vars

\* C6: at most one request of a conversation is outstanding at any time, and
\* while the request of the mounted conversation is outstanding loading is true,
\* which makes handleSend a no-op.
C6_OneRequestOutstanding ==
    \A c \in Pages :
       /\ \A r1, r2 \in pending[c] : r1.epoch = r2.epoch => r1 = r2
       /\ \A r \in pending[c] : Alive(c, r) => (loading[c] /\ ~CanSend(c))

C6_Witness ==
    \E c \in Pages :
       /\ Len(requestLog[c]) = 2
       /\ Cardinality(pending[c]) = 1
       /\ loading[c]
       /\ Len(messages[c]) = 4

\* C7: every accepted user turn causes exactly one request, and no other step
\* (a failed request in particular) issues a request.
C7_NoAutomaticRetry ==
    [][\A c \in Pages :
          LET accepted == /\ epoch'[c] = epoch[c]
                          /\ Len(messages'[c]) = Len(messages[c]) + 1
                          /\ Last(messages'[c]).role = "user"
          IN IF accepted
             THEN /\ Len(requestLog'[c]) = Len(requestLog[c]) + 1
                  /\ Cardinality(pending'[c] \ pending[c]) = 1
             ELSE /\ requestLog'[c] = requestLog[c]
                  /\ pending'[c] \subseteq pending[c]]_vars

C7_Witness ==
    \E c \in Pages :
       /\ Len(requestLog[c]) = 2
       /\ Len(messages[c]) >= 4
       /\ IsErrorMessage(messages[c][3])
       /\ messages[c][4].role = "user"

\* a single-text query the boundary accepts: not empty after trimming, within the bound
ValidQuery(text) == TrimRuns(text) # <<>> /\ StrLength(text) <= maxCharacters

\* C8: no navigation to /results carries a description that is empty,
\* whitespace-only or longer than 5000 characters.
C8_PostedDescriptionIsValid ==
    \A i \in 1..Len(posted) : ValidQuery(posted[i].projectDescription)

C8_Witness ==
    /\ Len(posted) = 1
    /\ StrLength(posted[1].projectDescription) = maxCharacters
    /\ IsWhitespace(posted[1].projectDescription[1].ch)

\* everything page c holds: its ChatInterface, its requests and timers, its navigation
PageState(c) ==
    <<messages[c], input[c], loading[c], pending[c], timers[c], mode[c], onPage[c],
      epoch[c], requestLog[c], navLog[c]>>

\* C9: conversations are isolated: a step changes the state of one page only, so a
\* send, response or error of one conversation (which changes that conversation)
\* leaves the history, the loading flag and the completion of the other as they were.
C9_ConversationsIsolated ==
    [][\A c, d \in Pages : c # d => (PageState(c)' = PageState(c) \/ PageState(d)' = PageState(d))]_vars

C9_Witness ==
    /\ Pages = {1, 2}
    /\ loading[1] /\ Len(messages[1]) = 2
    /\ ~loading[2] /\ Len(messages[2]) = 3
    /\ IsErrorMessage(messages[2][3])

Seeded == \E i \in 1..Len(ran) : ran[i].cmd = "insert_mock_data.py"
Started == \E i \in 1..Len(ran) : ran[i].cmd = "uvicorn"
ExactlyTrue(env) == env.set /\ env.value = "true"

\* C10 as stated: when startup has ended, the seeding script has run if and only
\* if SEED_MOCK_DATA is exactly "true".
C10_SeededIffTrue ==
    pc \in {"running", "exited"} => (Seeded <=> ExactlyTrue(seedEnv))

\* C10 amended: the seeding script never runs unless SEED_MOCK_DATA is exactly
\* "true", and it has run whenever SEED_MOCK_DATA is exactly "true" and the
\* script got past schema initialization to start the application.
C10_SeededIffTrueAndInitialized ==
    /\ Seeded => ExactlyTrue(seedEnv)
    /\ pc \in {"start", "running"} => (Seeded <=> ExactlyTrue(seedEnv))
    /\ pc = "exited" => ~Seeded

C10_Witness ==
    /\ pc = "running"
    /\ Seeded
    /\ ExactlyTrue(seedEnv)
    /\ attempt = max_retries

\* positions in the log of the commands run
Positions(cmd) == {i \in 1..Len(ran) : ran[i].cmd = cmd}

\* C15: uvicorn is started only after init_weaviate.py has succeeded; when
\* init_weaviate.py fails the script exits with status 1 and uvicorn is never
\* started; a failed insert_mock_data.py does not stop the script, which goes on
\* to start uvicorn.
C15_StartOnlyAfterSchemaInit ==
    /\ \A i \in Positions("uvicorn") :
          \E j \in Positions("init_weaviate.py") : j < i /\ ran[j].ok
    /\ (\E j \in Positions("init_weaviate.py") : ~ran[j].ok) =>
          (pc = "exited" /\ exitCode = <<1>> /\ ~Started)
    /\ pc = "exited" => (exitCode = <<1>> /\ ~Started)
    /\ (\E j \in Positions("insert_mock_data.py") : ~ran[j].ok) =>
          (pc \in {"start", "running"} /\ exitCode = <<>>)
    /\ pc = "running" => Started

C15_Witness ==
    /\ pc = "running"
    /\ Started
    /\ \E j \in Positions("insert_mock_data.py") : ~ran[j].ok

\* the wait loop is over
WaitOver == pc # "wait"

\* C16: the wait for Weaviate ends: at most 30 probes are made, none after a
\* successful one, a sleep follows every failed probe but the 30th, and when the
\* loop is over the script goes on to schema initialization, ready or not.
C16_WaitTerminates ==
    /\ [](/\ Cardinality(Positions("curl")) <= max_retries
          /\ \A i, j \in Positions("curl") : (ran[i].ok /\ i # j) => j < i
          /\ \A i \in Positions("sleep") :
                /\ i > 1 /\ ran[i - 1].cmd = "curl" /\ ~ran[i - 1].ok
                /\ i < Len(ran) => ran[i + 1].cmd = "curl"
                /\ WaitOver => i < Len(ran)
          /\ WaitOver =>
                /\ Positions("curl") # {}
                /\ pc = "init" \/ Positions("init_weaviate.py") # {}
                /\ \A i \in Positions("curl") : \A j \in Positions("init_weaviate.py") : i < j)
    /\ <>WaitOver
    /\ [](pc = "init" => <>(Positions("init_weaviate.py") # {}))

C16_Witness ==
    /\ pc = "seed"
    /\ Cardinality(Positions("curl")) = max_retries
    /\ Cardinality(Positions("sleep")) = max_retries - 1
    /\ \A i \in Positions("curl") : ~ran[i].ok

\* the request of the conversation now shown on page c that has not settled
Outstanding(c) == {r \in pending[c] : r.epoch = epoch[c]}

\* C17: in a mounted conversation loading is true exactly while its request is
\* outstanding: from the accepted send until the request settles, by resolving or
\* by rejecting, and false again from then on.
C17_LoadingWhileOutstanding ==
    \A c \in Pages : Mounted(c) => (loading[c] <=> Outstanding(c) # {})

C17_Witness ==
    \E c \in Pages :
       /\ Mounted(c)
       /\ ~loading[c]
       /\ Len(messages[c]) = 5
       /\ IsErrorMessage(messages[c][3])
       /\ ~IsErrorMessage(messages[c][5])
       /\ pending[c] = {}

\* C18: the history starts with the greeting and alternates assistant and user
\* messages; every user message is trimmed and not empty; and in a mounted
\* conversation with no request outstanding the last message is the assistant's.
C18_HistoryWellFormed ==
    \A c \in Pages :
       /\ messages[c] # <<>> /\ messages[c][1] = Greeting
       /\ \A i \in 1..Len(messages[c]) :
             messages[c][i].role = IF i % 2 = 1 THEN "assistant" ELSE "user"
       /\ \A i \in 1..Len(messages[c]) :
             messages[c][i].role = "user" =>
                (messages[c][i].content # <<>>
                 /\ Trim(messages[c][i].content) = messages[c][i].content)
       /\ (Mounted(c) /\ Outstanding(c) = {}) => Last(messages[c]).role = "assistant"

C18_Witness ==
    \E c \in Pages :
       /\ Mounted(c)
       /\ epoch[c] = 1
       /\ Outstanding(c) = {}
       /\ Len(messages[c]) = 3
       /\ messages[c][2].content = <<"a", " ", "b">>
       /\ IsErrorMessage(messages[c][3])

\* C19: completion is delivered at most once per conversation: no two
\* invocations of onComplete (navigations with roles) come from one conversation.
C19_CompletionDeliveredOnce ==
    \A c \in Pages : \A i, j \in OnCompleteCalls(c) :
       navLog[c][i].from = navLog[c][j].from => i = j

\* C20: a conversation discarded by switching to "find" has no further effect:
\* every navigation with roles comes from the conversation the page shows in
\* "assemble" mode at that moment, and switching back to "assemble" starts a
\* conversation holding only the greeting.
C20_DiscardedConversationInert ==
    [][\A c \in Pages :
          /\ (navLog'[c] # navLog[c] /\ "roles" \in DOMAIN Last(navLog'[c])) =>
                (mode[c] = "assemble" /\ Last(navLog'[c]).from = epoch[c])
          /\ epoch'[c] # epoch[c] =>
                (messages'[c] = InitialMessages /\ input'[c] = <<>> /\ ~loading'[c])]_vars

\* the best score any candidate entry of consultant id has
BestScore(id) ==
    CHOOSE sc \in Scores :
        /\ \E i \in DOMAIN cands : cands[i].id = id /\ cands[i].score = sc
        /\ \A i \in DOMAIN cands : cands[i].id = id => cands[i].score <= sc

\* the first position of entry e among the candidates
FirstPosition(e) == CHOOSE i \in DOMAIN cands : cands[i] = e /\ \A j \in 1..(i - 1) : cands[j] # e

\* C11: a successful match request returns at most K consultants, no consultant
\* id twice, and each returned consultant with the highest score it has among
\* the candidates.
C11_AtMostKDistinctBest ==
    outcome = "ok" =>
        /\ Len(result) <= topK
        /\ \A p, q \in DOMAIN result : result[p].id = result[q].id => p = q
        /\ \A p \in DOMAIN result :
              /\ \E i \in DOMAIN cands : cands[i] = result[p]
              /\ result[p].score = BestScore(result[p].id)

C11_Witness ==
    /\ outcome = "ok"
    /\ Len(cands) = MaxCands
    /\ \E i, j \in DOMAIN cands : cands[i].id = cands[j].id /\ cands[i].score < cands[j].score
    /\ \E i, j \in DOMAIN cands : cands[i].id # cands[j].id
    /\ Len(result) = topK
    /\ topK = 1

\* C12: the returned list is in descending score, consultants of equal score
\* in the order in which they stand among the candidates, in whatever order
\* the scoring tasks finished.
C12_DescendingStableOrder ==
    outcome = "ok" =>
        \A p, q \in DOMAIN result :
            p < q =>
                \/ result[p].score > result[q].score
                \/ /\ result[p].score = result[q].score
                   /\ FirstPosition(result[p]) < FirstPosition(result[q])

C12_Witness ==
    /\ outcome = "ok"
    /\ Len(result) = 2
    /\ result[1].score = result[2].score
    /\ Len(cands) = MaxCands
    /\ cands[1].score < result[1].score

\* C14: a request whose adapter call timed out fails with UpstreamTimeout and
\* returns nothing, however many candidates were scored; a request succeeds
\* only with every candidate scored, and a failed request stays failed.
C14_TimeoutIsNeverPartialSuccess ==
    /\ [](raised = "UpstreamTimeout" => (outcome = "UpstreamTimeout" /\ result = <<>>))
    /\ [](outcome = "ok" => (raised = "none" /\ \A i \in DOMAIN cands : collected[i] = cands[i]))
    /\ [][outcome = "UpstreamTimeout" => outcome' = "UpstreamTimeout"]_vars

C14_Witness ==
    /\ raised = "UpstreamTimeout"
    /\ outcome = "UpstreamTimeout"
    /\ \E i \in DOMAIN collected : collected[i] # Unscored
    /\ \E i \in DOMAIN collected : collected[i] = Unscored
    /\ topK > 0

AllAssigned == Len(assignment) = Len(lists)

\* the candidates of role k that no role was given
UnassignedAlternates(k) == Candidates(lists[k]) \ Taken(assignment)

\* the pairs of roles, earlier and later, that were given the same consultant
SharedPairs ==
    {p \in (DOMAIN assignment) \X (DOMAIN assignment) :
        /\ p[1] < p[2]
        /\ assignment[p[1]].status # "no match"
        /\ assignment[p[2]].status # "no match"
        /\ assignment[p[1]].consultant = assignment[p[2]].consultant}

====
